---- MODULE Spec2Model ----
(***************************************************************************)
(* State machine of src/components/ImageResizer.jsx: the React state of    *)
(* the ImageResizer component, its event handlers, and the asynchronous    *)
(* steps of processAndDownload / resizeImage (one action per callback or   *)
(* await continuation).                                                    *)
(***************************************************************************)
EXTENDS Integers, Sequences, FiniteSets, TLC

VARIABLES
    images,               \* useState([])     the admitted items
    width,                \* useState(800)
    height,               \* useState(600)
    preserveAspectRatio,  \* useState(true)
    isProcessing,         \* useState(false)
    progress,             \* useState(0), a percentage kept as a ratio num/den
    pc,                   \* where processAndDownload stands
    closure,              \* images/width/height/preserveAspectRatio of the render
                          \* whose processAndDownload and resizeImage are running
    i,                    \* the loop variable of processAndDownload
    canvas,               \* the canvas of the resizeImage call in flight
    processedImages,      \* the local array of processAndDownload
    zip,                  \* the JSZip instance: its entries, in insertion order
    dialog,               \* the text of the last alert() shown
    downloads,            \* a.click() calls of the current (or last) run
    outcome,              \* how the last finished run ended
    progressLog,          \* history: the setProgress values of the run while
                          \* isProcessing was true
    transcodeLog,         \* history: resizeImage calls and results of the run
    zipLog,               \* history: the zip.file calls of the run
    events,               \* history: number of user events so far
    runs                  \* history: number of runs started so far

vars == <<images, width, height, preserveAspectRatio, isProcessing, progress,
          pc, closure, i, canvas, processedImages, zip, dialog, downloads,
          outcome, progressLog, transcodeLog, zipLog, events, runs>>

reactState == <<images, width, height, preserveAspectRatio, isProcessing, progress>>
runState == <<pc, closure, i, canvas, processedImages, zip, downloads, outcome,
              progressLog, transcodeLog, zipLog, runs>>

----------------------------------------------------------------------------
(* Program constants *)

MaxImages == 30
InitialWidth == 800
InitialHeight == 600
SliderMin == 100
SliderMax == 2000
SliderStep == 50

(* Bounds of the model *)

MaxEvents == 3
MaxRuns == 2

----------------------------------------------------------------------------
(* Arithmetic helpers *)

Min(a, b) == IF a < b THEN a ELSE b

RECURSIVE GCD(_, _)
GCD(a, b) == IF b = 0 THEN a ELSE GCD(b, a % b)

\* A non-negative rational num/den in lowest terms.
Ratio(num, den) == LET g == GCD(num, den) IN [num |-> num \div g, den |-> den \div g]

RatioLeq(p, q) == p.num * q.den <= q.num * p.den

Whole(n) == [num |-> n, den |-> 1]

----------------------------------------------------------------------------
(* The files the user can offer.  A file has a name, a MIME type (major,   *)
(* minor), a size, and the bitmap its bytes decode to (<<0, 0>>: the bytes *)
(* are not a decodable image).                                             *)

Png == <<"image", "png">>
Txt == <<"text", "plain">>
Undecodable == <<0, 0>>

File(name, type, size, bitmap) ==
    [name |-> name, type |-> type, size |-> size, bitmap |-> bitmap]

Pair == << File("a.png", Png, 4, <<400, 300>>), File("b.png", Png, 5, <<400, 300>>) >>

Mixed == << File("notes.txt", Txt, 1, Undecodable), File("wide.png", Png, 2, <<1601, 1>>) >>

Broken == << File("bad.png", Png, 3, Undecodable), File("c.png", Png, 6, <<300, 400>>) >>

Many(n) == [k \in 1..n |-> File("img" \o ToString(k), Png, 7, <<1000, 500>>)]

FileLists == {Pair, Mixed, Broken, Many(MaxImages - 1), Many(MaxImages + 1)}

\* Slider positions the model lets the user pick.
SliderChoices == {SliderMin, SliderMax}

----------------------------------------------------------------------------
(* handleDrop / handleFileInput / removeImage *)

\* file.type.startsWith('image/')
IsImageFile(file) == file.type[1] = "image"

\* files.filter(file => file.type.startsWith('image/'))
ImageFilesOf(files) == SelectSeq(files, IsImageFile)

\* if (imageFiles.length > 30)
TooManyNever(imageFiles) == FALSE
TooMany(imageFiles) == Len(imageFiles) > MaxImages

\* imageFiles.map(file => ({file, preview, name, originalSize})): the preview
\* object URL serves the file's bytes, so it stands for what they decode to.
NewImages(imageFiles) ==
    [k \in 1..Len(imageFiles) |->
        [name |-> imageFiles[k].name,
         preview |-> imageFiles[k].bitmap,
         originalSize |-> imageFiles[k].size]]

\* [...prev, ...newImages].slice(0, 30)
AdmitNoSlice(prev, newImages) == prev \o newImages
AdmitPrepend(prev, newImages) ==
    LET all == newImages \o prev IN SubSeq(all, 1, Min(Len(all), MaxImages))
Admit(prev, newImages) ==
    LET all == prev \o newImages IN SubSeq(all, 1, Min(Len(all), MaxImages))

\* The body shared by the two admission handlers.
Admission(files) ==
    LET imageFiles == ImageFilesOf(files) IN
    IF TooMany(imageFiles)
    THEN /\ dialog' = "Maximum 30 images allowed"
         /\ UNCHANGED images
    ELSE /\ images' = Admit(images, NewImages(imageFiles))
         /\ UNCHANGED dialog

handleDrop(files) ==
    /\ events < MaxEvents
    /\ events' = events + 1
    /\ Admission(files)
    /\ UNCHANGED <<width, height, preserveAspectRatio, isProcessing, progress>>
    /\ UNCHANGED runState

handleFileInput(files) ==
    /\ events < MaxEvents
    /\ events' = events + 1
    /\ Admission(files)
    /\ UNCHANGED <<width, height, preserveAspectRatio, isProcessing, progress>>
    /\ UNCHANGED runState

\* prev.filter((_, i) => i !== index), index counted from 0
RemoveAt(prev, index) ==
    SubSeq(prev, 1, index) \o SubSeq(prev, index + 2, Len(prev))

\* The remove buttons the model lets the user press: the first and the last.
RemoveChoices == {0, Len(images) - 1} \cap (0..(Len(images) - 1))

removeImage(index) ==
    /\ events < MaxEvents
    /\ events' = events + 1
    /\ images' = RemoveAt(images, index)
    /\ UNCHANGED <<width, height, preserveAspectRatio, isProcessing, progress, dialog>>
    /\ UNCHANGED runState

setWidth(v) ==
    /\ events < MaxEvents
    /\ events' = events + 1
    /\ width' = v
    /\ UNCHANGED <<images, height, preserveAspectRatio, isProcessing, progress, dialog>>
    /\ UNCHANGED runState

setHeight(v) ==
    /\ events < MaxEvents
    /\ events' = events + 1
    /\ height' = v
    /\ UNCHANGED <<images, width, preserveAspectRatio, isProcessing, progress, dialog>>
    /\ UNCHANGED runState

\* onChange of the checkbox: e.target.checked is the box's new state
setPreserveAspectRatio ==
    /\ events < MaxEvents
    /\ events' = events + 1
    /\ preserveAspectRatio' = ~preserveAspectRatio
    /\ UNCHANGED <<images, width, height, isProcessing, progress, dialog>>
    /\ UNCHANGED runState

----------------------------------------------------------------------------
(* resizeImage *)

NoCanvas == [width |-> 0, height |-> 0, drawn |-> <<>>]
NoClosure == [images |-> <<>>, width |-> 0, height |-> 0, preserveAspectRatio |-> FALSE]
NullBlob == "null"
JpegBlob == "image/jpeg"

\* The image of item `image` loads (img.onload fires) only if its bytes decode;
\* no img.onerror handler is installed.
Decodable(image) == image.preview # Undecodable

\* The target dimensions computed in img.onload, as exact rationals.  `computed`
\* names the dimension that came out of the floating-point division or product.
PlanStretch(iw, ih, w, h, preserve) ==
    [width |-> Whole(w), height |-> Whole(h), computed |-> "none"]
PlanAlwaysFit(iw, ih, w, h, preserve) ==
    IF iw * h > w * ih
    THEN [width |-> Whole(w), height |-> Ratio(w * ih, iw), computed |-> "height"]
    ELSE [width |-> Ratio(h * iw, ih), height |-> Whole(h), computed |-> "width"]
PlanCover(iw, ih, w, h, preserve) ==
    IF preserve
    THEN IF iw * h < w * ih
         THEN [width |-> Whole(w), height |-> Ratio(w * ih, iw), computed |-> "height"]
         ELSE [width |-> Ratio(h * iw, ih), height |-> Whole(h), computed |-> "width"]
    ELSE [width |-> Whole(w), height |-> Whole(h), computed |-> "none"]
Plan(iw, ih, w, h, preserve) ==
    IF preserve
    THEN IF iw * h > w * ih     \* originalAspectRatio > targetAspectRatio
         THEN [width |-> Whole(w), height |-> Ratio(w * ih, iw), computed |-> "height"]
         ELSE [width |-> Ratio(h * iw, ih), height |-> Whole(h), computed |-> "width"]
    ELSE [width |-> Whole(w), height |-> Whole(h), computed |-> "none"]

RECURSIVE PowerOfTwo(_)
PowerOfTwo(n) == n = 1 \/ (n % 2 = 0 /\ PowerOfTwo(n \div 2))

\* img.width / img.height is an exact double iff its reduced denominator is a
\* power of two.
ExactQuotient(iw, ih) == PowerOfTwo(Ratio(iw, ih).den)

\* canvas.width = value: the canvas keeps the integer part of the double.  The
\* double is the rational q up to rounding: when the aspect ratio is not an exact
\* double and q is a whole number, the double may lie just below q.
CanvasSizes(q, isComputed, exact) ==
    IF isComputed /\ ~exact /\ q.den = 1 /\ q.num > 0
    THEN {q.num - 1, q.num}
    ELSE {q.num \div q.den}

\* The canvases img.onload can produce for `image` under the closure's settings.
Canvases(image, w, h, preserve) ==
    LET iw == image.preview[1]
        ih == image.preview[2]
        target == Plan(iw, ih, w, h, preserve)
        exact == ExactQuotient(iw, ih)
    IN  { [width |-> cw, height |-> ch,
           drawn |-> <<target.width, target.height>>] :
            cw \in CanvasSizes(target.width, target.computed = "width", exact),
            ch \in CanvasSizes(target.height, target.computed = "height", exact) }

\* canvas.toBlob(cb, 'image/jpeg', 0.85): a canvas without pixels yields null.
ToBlob(c) == IF c.width = 0 \/ c.height = 0 THEN NullBlob ELSE JpegBlob

----------------------------------------------------------------------------
(* processAndDownload *)

\* `resized-${name}`
EntryName(name) == "resized-" \o name

\* zip.file(name, data): JSZip keeps one entry per name; a second call with the
\* same name replaces the entry's data in place.
ZipFile(z, name, data) ==
    IF \E k \in 1..Len(z) : z[k].name = name
    THEN [k \in 1..Len(z) |-> IF z[k].name = name THEN [name |-> name, data |-> data] ELSE z[k]]
    ELSE Append(z, [name |-> name, data |-> data])

\* processedImages.forEach(({blob, name}) => zip.file(`resized-${name}`, blob))
RECURSIVE ForEachZipFile(_, _, _)
ForEachZipFile(z, processed, k) ==
    IF k > Len(processed) THEN z
    ELSE ForEachZipFile(ZipFile(z, EntryName(processed[k].name), processed[k].blob),
                        processed, k + 1)

ZipCalls(processed) == [k \in 1..Len(processed) |-> EntryName(processed[k].name)]

\* setProgress(((i + 1) / images.length) * 100)
ProgressBefore(k, n) == Ratio(k * 100, n)
ProgressAfter(k, n) == Ratio((k + 1) * 100, n)

\* i++
SkipOne(k) == k + 2
NextIndex(k) == k + 1

\* The for loop at index k, with `processed` collected and `log` recorded so
\* far: either the next resizeImage call starts (new Image(), img.src), or the
\* loop is over, the entries are added and zip.generateAsync is called.
LoopSealsEarly(k, processed, log) ==
    IF k < Len(closure.images) - 1
    THEN /\ pc' = "load"
         /\ transcodeLog' = Append(log, <<"start", k>>)
         /\ UNCHANGED <<zip, zipLog>>
    ELSE /\ pc' = "generate"
         /\ zip' = ForEachZipFile(zip, processed, 1)
         /\ zipLog' = ZipCalls(processed)
         /\ transcodeLog' = log
Loop(k, processed, log) ==
    IF k < Len(closure.images)
    THEN /\ pc' = "load"
         /\ transcodeLog' = Append(log, <<"start", k>>)
         /\ UNCHANGED <<zip, zipLog>>
    ELSE /\ pc' = "generate"
         /\ zip' = ForEachZipFile(zip, processed, 1)
         /\ zipLog' = ZipCalls(processed)
         /\ transcodeLog' = log

\* The finally block, and the locals going out of scope.
Finally ==
    /\ isProcessing' = FALSE
    /\ progress' = Whole(0)
    /\ pc' = "idle"
    /\ closure' = NoClosure
    /\ i' = 0
    /\ canvas' = NoCanvas
    /\ processedImages' = <<>>
    /\ zip' = <<>>
    /\ zipLog' = <<>>

processAndDownloadUnguarded ==
    /\ runs < MaxRuns
    /\ runs' = runs + 1
    /\ isProcessing' = TRUE
    /\ progress' = Whole(0)
    /\ progressLog' = << Whole(0) >>
    /\ closure' = [images |-> images, width |-> width, height |-> height,
                   preserveAspectRatio |-> preserveAspectRatio]
    /\ pc' = "import"
    /\ i' = 0
    /\ canvas' = NoCanvas
    /\ processedImages' = <<>>
    /\ zip' = <<>>
    /\ zipLog' = <<>>
    /\ transcodeLog' = <<>>
    /\ downloads' = 0
    /\ outcome' = "none"
    /\ UNCHANGED <<images, width, height, preserveAspectRatio, dialog, events>>

\* onClick of the download button, which is disabled while
\* images.length === 0 || isProcessing; runs up to `await import('jszip')`.
processAndDownload ==
    /\ ~(Len(images) = 0 \/ isProcessing)
    /\ runs < MaxRuns
    /\ runs' = runs + 1
    /\ isProcessing' = TRUE
    /\ progress' = Whole(0)
    /\ progressLog' = << Whole(0) >>
    /\ closure' = [images |-> images, width |-> width, height |-> height,
                   preserveAspectRatio |-> preserveAspectRatio]
    /\ pc' = "import"
    /\ i' = 0
    /\ canvas' = NoCanvas
    /\ processedImages' = <<>>
    /\ zip' = <<>>
    /\ zipLog' = <<>>
    /\ transcodeLog' = <<>>
    /\ downloads' = 0
    /\ outcome' = "none"
    /\ UNCHANGED <<images, width, height, preserveAspectRatio, dialog, events>>

\* import('jszip') resolves: new JSZip(), processedImages = [], the loop starts.
importResolved ==
    /\ pc = "import"
    /\ Loop(0, <<>>, transcodeLog)
    /\ UNCHANGED <<images, width, height, preserveAspectRatio, isProcessing, progress,
                   closure, i, canvas, processedImages, dialog, downloads, outcome,
                   progressLog, events, runs>>

\* import('jszip') rejects: catch, then finally.
importRejected ==
    /\ pc = "import"
    /\ dialog' = "Error processing images. Please try again."
    /\ outcome' = "importError"
    /\ Finally
    /\ UNCHANGED <<images, width, height, preserveAspectRatio, downloads,
                   progressLog, transcodeLog, events, runs>>

imgOnloadLive ==
    /\ pc = "load"
    /\ Decodable(closure.images[i + 1])
    /\ canvas' \in Canvases(closure.images[i + 1], width, height, preserveAspectRatio)
    /\ pc' = "encode"
    /\ UNCHANGED <<images, width, height, preserveAspectRatio, isProcessing, progress,
                   closure, i, processedImages, zip, dialog, downloads, outcome,
                   progressLog, transcodeLog, zipLog, events, runs>>

\* img.onload of the resizeImage call in flight: the canvas is sized and drawn,
\* canvas.toBlob is called.
imgOnload ==
    /\ pc = "load"
    /\ Decodable(closure.images[i + 1])
    /\ canvas' \in Canvases(closure.images[i + 1], closure.width, closure.height,
                            closure.preserveAspectRatio)
    /\ pc' = "encode"
    /\ UNCHANGED <<images, width, height, preserveAspectRatio, isProcessing, progress,
                   closure, i, processedImages, zip, dialog, downloads, outcome,
                   progressLog, transcodeLog, zipLog, events, runs>>

\* The toBlob callback resolves the promise; processAndDownload resumes: push,
\* setProgress, i++, and the loop goes on.
toBlobCallback ==
    /\ pc = "encode"
    /\ LET processed == Append(processedImages,
                               [blob |-> ToBlob(canvas), name |-> closure.images[i + 1].name])
           value == ProgressAfter(i, Len(closure.images))
       IN  /\ processedImages' = processed
           /\ progress' = value
           /\ progressLog' = Append(progressLog, value)
           /\ i' = NextIndex(i)
           /\ canvas' = NoCanvas
           /\ Loop(NextIndex(i), processed, Append(transcodeLog, <<"result", i>>))
    /\ UNCHANGED <<images, width, height, preserveAspectRatio, isProcessing,
                   closure, dialog, downloads, outcome, events, runs>>

\* zip.generateAsync resolves: the archive is handed to the browser (a.click()).
generateResolved ==
    /\ pc = "generate"
    /\ downloads' = downloads + 1
    /\ outcome' = "delivered"
    /\ Finally
    /\ UNCHANGED <<images, width, height, preserveAspectRatio, dialog,
                   progressLog, transcodeLog, events, runs>>

generateRejectedAfterClick ==
    /\ pc = "generate"
    /\ dialog' = "Error processing images. Please try again."
    /\ outcome' = "archiveError"
    /\ downloads' = downloads + 1
    /\ Finally
    /\ UNCHANGED <<images, width, height, preserveAspectRatio,
                   progressLog, transcodeLog, events, runs>>

\* zip.generateAsync rejects: catch, then finally.
generateRejected ==
    /\ pc = "generate"
    /\ dialog' = "Error processing images. Please try again."
    /\ outcome' = "archiveError"
    /\ Finally
    /\ UNCHANGED <<images, width, height, preserveAspectRatio, downloads,
                   progressLog, transcodeLog, events, runs>>

----------------------------------------------------------------------------
Init ==
    /\ images = <<>>
    /\ width = InitialWidth
    /\ height = InitialHeight
    /\ preserveAspectRatio = TRUE
    /\ isProcessing = FALSE
    /\ progress = Whole(0)
    /\ pc = "idle"
    /\ closure = NoClosure
    /\ i = 0
    /\ canvas = NoCanvas
    /\ processedImages = <<>>
    /\ zip = <<>>
    /\ dialog = ""
    /\ downloads = 0
    /\ outcome = "none"
    /\ progressLog = <<>>
    /\ transcodeLog = <<>>
    /\ zipLog = <<>>
    /\ events = 0
    /\ runs = 0

Next ==
    \/ \E files \in FileLists : handleDrop(files)
    \/ \E files \in FileLists : handleFileInput(files)
    \/ \E index \in RemoveChoices : removeImage(index)
    \/ \E v \in SliderChoices : setWidth(v)
    \/ \E v \in SliderChoices : setHeight(v)
    \/ setPreserveAspectRatio
    \/ processAndDownload
    \/ importResolved
    \/ importRejected
    \/ imgOnload
    \/ toBlobCallback
    \/ generateResolved
    \/ generateRejected

Spec == Init /\ [][Next]_vars

\* The image-load, encode, import and archive callbacks are delivered by the
\* browser's event loop whenever they are pending.
FairSpec ==
    /\ Spec
    /\ WF_vars(importResolved \/ importRejected)
    /\ WF_vars(imgOnload)
    /\ WF_vars(toBlobCallback)
    /\ WF_vars(generateResolved \/ generateRejected)

----------------------------------------------------------------------------
(* The dimension computation of resizeImage on its own: one resizeImage call *)
(* is in flight for a single image, for every original size and every        *)
(* requested box of the sets below.                                          *)

PlanSides == {1, 2, 3, 7, 300, 400, 1000, 1601}
PlanSliders == {SliderMin, SliderMin + SliderStep, InitialHeight, InitialWidth, SliderMax}

PlanInit ==
    \E iw \in PlanSides, ih \in PlanSides, w \in PlanSliders, h \in PlanSliders,
       preserve \in BOOLEAN :
        /\ images = NewImages(<< File("x.png", Png, 1, <<iw, ih>>) >>)
        /\ width = w
        /\ height = h
        /\ preserveAspectRatio = preserve
        /\ isProcessing = TRUE
        /\ progress = Whole(0)
        /\ pc = "load"
        /\ closure = [images |-> images, width |-> w, height |-> h,
                      preserveAspectRatio |-> preserve]
        /\ i = 0
        /\ canvas = NoCanvas
        /\ processedImages = <<>>
        /\ zip = <<>>
        /\ dialog = ""
        /\ downloads = 0
        /\ outcome = "none"
        /\ progressLog = << Whole(0) >>
        /\ transcodeLog = << <<"start", 0>> >>
        /\ zipLog = <<>>
        /\ events = MaxEvents
        /\ runs = MaxRuns

PlanNext == imgOnload

PlanSpec == PlanInit /\ [][PlanNext]_vars

----------------------------------------------------------------------------
(* Helpers of the properties *)

Last(seq) == seq[Len(seq)]

NonDecreasing(seq) == \A k \in 1..(Len(seq) - 1) : RatioLeq(seq[k], seq[k + 1])

Abs(n) == IF n < 0 THEN -n ELSE n

\* start 0, result 0, start 1, result 1, ...: the first k events of a run that
\* transcodes one item at a time, in list order.
OneAtATime(k) ==
    [j \in 1..k |-> IF j % 2 = 1 THEN <<"start", (j - 1) \div 2>>
                                 ELSE <<"result", (j - 2) \div 2>>]

NamesOf(files) == {files[k].name : k \in 1..Len(files)}

Oversized(files) == Len(ImageFilesOf(files)) > MaxImages

\* The names that only a call with more than 30 image files carries.
OversizedOnlyNames ==
    UNION {NamesOf(files) : files \in {fl \in FileLists : Oversized(fl)}}
        \ UNION {NamesOf(files) : files \in {fl \in FileLists : ~Oversized(fl)}}

Encoded(processed) == {k \in 1..Len(processed) : processed[k].blob # NullBlob}

LoadFailed == pc = "load" /\ ~Decodable(closure.images[i + 1])

----------------------------------------------------------------------------
(* C1: in every reachable state the images list holds at most 30 items. *)
C1_AtMostThirty == Len(images) <= MaxImages

C1_Witness == Len(images) = MaxImages /\ events >= 2

(* C2: within a run the items are transcoded in list order, one at a time:      *)
(* the log alternates start k, result k with k = 0, 1, 2, ...; the results      *)
(* collected are those of the first i items, in order; when the loop is over    *)
(* every item has one result and the zip.file calls follow the list order.      *)
C2_InOrderOneAtATime ==
    /\ transcodeLog = OneAtATime(Len(transcodeLog))
    /\ isProcessing =>
        /\ Len(processedImages) = i
        /\ \A k \in 1..i : processedImages[k].name = closure.images[k].name
    /\ pc \in {"load", "encode"} =>
        /\ i < Len(closure.images)
        /\ Len(transcodeLog) = 2 * i + 1
    /\ pc = "generate" =>
        /\ i = Len(closure.images)
        /\ Len(transcodeLog) = 2 * i
        /\ zipLog = [k \in 1..i |-> EntryName(closure.images[k].name)]

C2_Witness ==
    /\ pc = "generate"
    /\ Len(closure.images) = MaxImages
    /\ Len(zipLog) = MaxImages

(* C3 as stated: when a run has ended, the progress values it wrote while       *)
(* isProcessing was true are non-decreasing and the last one is 100.            *)
C3_Original ==
    (~isProcessing /\ progressLog # <<>>) =>
        /\ NonDecreasing(progressLog)
        /\ Last(progressLog) = Whole(100)

(* C3 amended: the progress values of a run are non-decreasing; the last one is *)
(* 100 once the loop is over (archive finalization was reached), and it is the  *)
(* initial 0 when the run ended because the jszip import failed.                *)
C3_Amended ==
    /\ NonDecreasing(progressLog)
    /\ isProcessing => progress = Last(progressLog)
    /\ (pc = "generate" \/ (~isProcessing /\ outcome \in {"delivered", "archiveError"})) =>
        Last(progressLog) = Whole(100)
    /\ (~isProcessing /\ outcome = "importError") => progressLog = << Whole(0) >>

C3_Witness ==
    /\ ~isProcessing
    /\ outcome = "delivered"
    /\ Len(progressLog) > 3
    /\ Last(progressLog) = Whole(100)

(* C4: when the image of an item fails to load, the run still goes on and       *)
(* eventually ends (isProcessing becomes false again).                          *)
C4_DecodeFailureDoesNotStall == LoadFailed ~> ~isProcessing

(* C5: when the loop is over, an item whose encoding failed (null blob) has no  *)
(* archive entry, and every other item has its entry.                           *)
C5_NoEntryForFailedEncode ==
    pc = "generate" =>
        \A k \in 1..Len(processedImages) :
            (processedImages[k].blob # NullBlob)
                <=> (\E e \in 1..Len(zip) : zip[e].name = EntryName(processedImages[k].name))

(* C6: at archive finalization the archive holds exactly one entry per          *)
(* successfully transcoded image, each named "resized-" + the image's name.     *)
C6_OneEntryPerImage ==
    pc = "generate" =>
        /\ Cardinality({e \in 1..Len(zip) : zip[e].data # NullBlob})
              = Cardinality(Encoded(processedImages))
        /\ \A e \in 1..Len(zip) :
              \E k \in 1..Len(processedImages) : zip[e].name = EntryName(processedImages[k].name)

(* C7: a handleDrop or handleFileInput call with more than 30 image files       *)
(* leaves the images list and every other state variable unchanged, and no      *)
(* item that only such a call carries is ever part of a run.                    *)
C7_OversizedCallRejected ==
    /\ [][\A files \in FileLists :
            (Oversized(files) /\ (handleDrop(files) \/ handleFileInput(files)))
                => UNCHANGED <<reactState, runState>>]_vars
    /\ [](\A k \in 1..Len(images) : images[k].name \notin OversizedOnlyNames)
    /\ [](\A k \in 1..Len(closure.images) : closure.images[k].name \notin OversizedOnlyNames)

C7_Witness ==
    /\ dialog = "Maximum 30 images allowed"
    /\ Len(images) > 0
    /\ pc = "generate"

(* C8: after a handleDrop or handleFileInput call either all image files of the *)
(* call were appended to the list or the list is unchanged.                     *)
C8_AllOrNothing ==
    [][\A files \in FileLists :
        (handleDrop(files) \/ handleFileInput(files))
            => \/ images' = images
               \/ images' = images \o NewImages(ImageFilesOf(files))]_vars

(* C9: with preserveAspectRatio false the canvas is sized to, and the image     *)
(* drawn to, exactly the requested width and height.                            *)
C9_StretchIsExact ==
    (pc = "encode" /\ ~closure.preserveAspectRatio) =>
        /\ canvas.width = closure.width
        /\ canvas.height = closure.height
        /\ canvas.drawn = << Whole(closure.width), Whole(closure.height) >>

C9_Witness ==
    /\ pc = "encode"
    /\ ~closure.preserveAspectRatio
    /\ closure.images[i + 1].preview[1] * closure.height
          # closure.width * closure.images[i + 1].preview[2]

(* C10: with preserveAspectRatio true the output has the requested width or the *)
(* requested height, and its other dimension is within one pixel of the value   *)
(* that gives the original aspect ratio exactly.                                *)
C10_AspectWithinOnePixel ==
    (pc = "encode" /\ closure.preserveAspectRatio) =>
        LET iw == closure.images[i + 1].preview[1]
            ih == closure.images[i + 1].preview[2]
            w == closure.width
            h == closure.height
        IN  \/ /\ canvas.width = w
               /\ canvas.drawn[1] = Whole(w)
               /\ Abs(canvas.height * iw - w * ih) <= iw
               /\ canvas.drawn[2] = Ratio(w * ih, iw)
            \/ /\ canvas.height = h
               /\ canvas.drawn[2] = Whole(h)
               /\ Abs(canvas.width * ih - h * iw) <= ih
               /\ canvas.drawn[1] = Ratio(h * iw, ih)

C10_Witness ==
    /\ pc = "encode"
    /\ closure.preserveAspectRatio
    /\ canvas.width # closure.width
    /\ canvas.drawn[1].den > 1

----------------------------------------------------------------------------
\* Round-half-up of a non-negative rational, and not below 1.
RoundHalfUp(q) == (2 * q.num + q.den) \div (2 * q.den)

AtLeastOne(n) == IF n < 1 THEN 1 ELSE n

(* C11: the canvas width and height are the computed values rounded half-up,    *)
(* and are at least 1.                                                          *)
C11_RoundedHalfUpAtLeastOne ==
    pc = "encode" =>
        /\ canvas.width = AtLeastOne(RoundHalfUp(canvas.drawn[1]))
        /\ canvas.height = AtLeastOne(RoundHalfUp(canvas.drawn[2]))

ErrorDialog == "Error processing images. Please try again."

(* C12: when zip.generateAsync fails, no download is triggered, the error is    *)
(* shown to the user, and the run ends with isProcessing false.                 *)
C12_ArchiveFailureIsFatal ==
    /\ [][(pc = "generate" /\ outcome' = "archiveError") =>
            /\ downloads' = 0
            /\ dialog' = ErrorDialog
            /\ ~isProcessing'
            /\ pc' = "idle"]_vars
    /\ [](outcome = "archiveError" => (downloads = 0 /\ ~isProcessing))

C12_Witness ==
    /\ outcome = "archiveError"
    /\ dialog = ErrorDialog
    /\ ~isProcessing
    /\ Len(transcodeLog) >= 4

(* C13: within a run zip.generateAsync is called once, in the step that ends the *)
(* loop, when every item has its result and every entry was added; no entry is  *)
(* added afterwards; a.click() happens at most once per run and only when       *)
(* generateAsync resolved.                                                      *)
C13_SealedOnceAfterAllEntries ==
    /\ [][(pc' = "generate" /\ pc # "generate") =>
            /\ pc \in {"import", "encode"}
            /\ Len(processedImages') = Len(closure.images)
            /\ Len(transcodeLog') = 2 * Len(closure.images)
            /\ Len(zipLog') = Len(closure.images)]_vars
    /\ [][pc = "generate" =>
            (pc' = "idle" \/ UNCHANGED <<pc, zip, zipLog, processedImages>>)]_vars
    /\ [][zip' # zip => ((pc' = "generate" /\ pc # "generate") \/ pc' = "idle")]_vars
    /\ [][pc = "idle" => pc' \in {"idle", "import"}]_vars
    /\ [][downloads' # downloads =>
            \/ (pc = "idle" /\ pc' = "import" /\ downloads' = 0)
            \/ (pc = "generate" /\ downloads = 0 /\ downloads' = 1
                  /\ outcome' = "delivered")]_vars
    /\ [](downloads <= 1)

C13_Witness ==
    /\ outcome = "delivered"
    /\ downloads = 1
    /\ Len(transcodeLog) >= 4

IsPrefix(a, b) == Len(a) <= Len(b) /\ SubSeq(b, 1, Len(a)) = a

(* C14: a run starts only when no run is in flight and the list is not empty;   *)
(* while a run is in flight no other run starts, so its transcode and progress  *)
(* logs only grow, and the batch of a run is never empty.                       *)
C14_OneRunAtATime ==
    /\ [][runs' # runs =>
            /\ ~isProcessing
            /\ pc = "idle"
            /\ Len(images) > 0
            /\ isProcessing']_vars
    /\ [][(isProcessing /\ isProcessing') =>
            /\ runs' = runs
            /\ IsPrefix(transcodeLog, transcodeLog')
            /\ IsPrefix(progressLog, progressLog')]_vars
    /\ [](isProcessing <=> pc # "idle")
    /\ [](isProcessing => Len(closure.images) > 0)

C14_Witness ==
    /\ pc = "encode"
    /\ i >= 1
    /\ runs < MaxRuns
    /\ Len(images) > 0

(* C15: a run works on the images, width, height and preserveAspectRatio that    *)
(* were in effect when it started: they are captured at the start, no           *)
(* interleaved handler changes them, every canvas is computed from them, and    *)
(* the progress denominator is the captured list's length.                      *)
C15_RunWorksOnSnapshot ==
    /\ [][runs' # runs =>
            closure' = [images |-> images, width |-> width, height |-> height,
                        preserveAspectRatio |-> preserveAspectRatio]]_vars
    /\ [][(isProcessing /\ isProcessing') => closure' = closure]_vars
    /\ [](pc = "encode" =>
            canvas \in Canvases(closure.images[i + 1], closure.width, closure.height,
                                closure.preserveAspectRatio))
    /\ [](isProcessing =>
            /\ progress = Ratio(i * 100, Len(closure.images))
            /\ \A k \in 1..Len(processedImages) :
                  processedImages[k].name = closure.images[k].name)

C15_Witness ==
    /\ pc = "encode"
    /\ i >= 1
    /\ width # closure.width
    /\ images # closure.images

(* C16: with preserveAspectRatio true the output fits inside the requested box: *)
(* neither the canvas nor the drawn size exceeds the requested width or height. *)
C16_FitsInsideBox ==
    (pc = "encode" /\ closure.preserveAspectRatio) =>
        /\ canvas.width <= closure.width
        /\ canvas.height <= closure.height
        /\ RatioLeq(canvas.drawn[1], Whole(closure.width))
        /\ RatioLeq(canvas.drawn[2], Whole(closure.height))

C16_Witness ==
    /\ pc = "encode"
    /\ closure.preserveAspectRatio
    /\ canvas.width = closure.width
    /\ 0 < canvas.height
    /\ canvas.height < closure.height

(* C17: after an accepted handleDrop or handleFileInput call the previous list  *)
(* is a prefix of the new list, and the new list is a prefix of the previous    *)
(* list followed by the call's image files in the order given.                  *)
C17_AdmissionAppends ==
    [][\A files \in FileLists :
        ((handleDrop(files) \/ handleFileInput(files)) /\ ~Oversized(files))
            => /\ IsPrefix(images, images')
               /\ IsPrefix(images', images \o NewImages(ImageFilesOf(files)))]_vars

C17_Witness ==
    /\ Len(images) = 4
    /\ images[1].name = "a.png"
    /\ images[3].name = "bad.png"

====
